---- MODULE Spec2Model ----
(***************************************************************************)
(* EduMentor: the question-answering orchestration flow                    *)
(* (src/src/ai/flows/answer-academic-question.ts).                         *)
(*                                                                         *)
(* The file holds two definitions of answerAcademicQuestionFlow:           *)
(*   variant 1 (lines 66-101): primary call, then generateVisualAids,      *)
(*             every failure converted to an apology Answer, no fallback;  *)
(*   variant 2 (lines 186-270): tool-aware primary call, decider,          *)
(*             generator, DeepSeek fallback on an overload failure,        *)
(*             every other failure re-thrown.                              *)
(* One orchestration call is a chain of awaits; each action below is the   *)
(* code that runs between two awaits.                                      *)
(*                                                                         *)
(* Strings the code searches, trims or lower-cases (error messages, the    *)
(* decider's raw output) are sequences of one-character strings; strings   *)
(* the code only passes along are TLA+ strings.                            *)
(*                                                                         *)
(* The components that call the flows are modelled beside it, each with    *)
(* its own specification: ChatInterface (src/unnamed/part_002),            *)
(* Whiteboard with generateWhiteboardDiagram (Whiteboard.tsx,              *)
(* src/unnamed/part_000) and PrivateRoute (src/unnamed/part_001).          *)
(***************************************************************************)
EXTENDS Integers, Sequences, FiniteSets, TLC

(* ---------------------------- bounds ----------------------------------- *)

\* orchestration calls made one after the other in a behaviour
MaxCalls == 2

\* tool invocations the tool-aware primary model may elect during one call
MaxToolCalls == 1

\* questions the chat sends in a behaviour
MaxSubmits == 2

\* generations the whiteboard starts in a behaviour
MaxGenerations == 2

\* strokes on the whiteboard, and points of one stroke
MaxPaths == 2

MaxPoints == 2

\* redirects PrivateRoute issues in a behaviour
MaxRedirects == 2

(* ------------------------- JavaScript values --------------------------- *)

\* the value undefined (a destructured field that is not there)
Undefined == "<undefined>"

\* an object key that was never written
Absent == "<absent>"

\* !v for a string-or-undefined value: the empty string and undefined are falsy
FalsyEmptyOnly(v) == v = ""

Falsy(v) == v \in {"", Undefined}

\* String.prototype.includes: sub occurs in s as a contiguous, case-sensitive run
IncludesPrefixOnly(s, sub) ==
    /\ Len(sub) <= Len(s)
    /\ SubSeq(s, 1, Len(sub)) = sub

Includes(s, sub) ==
    \E i \in 1..(Len(s) - Len(sub) + 1) : SubSeq(s, i, i + Len(sub) - 1) = sub

\* String.prototype.toLowerCase on the letters A-Z
LowerChar(c) ==
    CASE c = "A" -> "a" [] c = "B" -> "b" [] c = "C" -> "c" [] c = "D" -> "d"
      [] c = "E" -> "e" [] c = "F" -> "f" [] c = "G" -> "g" [] c = "H" -> "h"
      [] c = "I" -> "i" [] c = "J" -> "j" [] c = "K" -> "k" [] c = "L" -> "l"
      [] c = "M" -> "m" [] c = "N" -> "n" [] c = "O" -> "o" [] c = "P" -> "p"
      [] c = "Q" -> "q" [] c = "R" -> "r" [] c = "S" -> "s" [] c = "T" -> "t"
      [] c = "U" -> "u" [] c = "V" -> "v" [] c = "W" -> "w" [] c = "X" -> "x"
      [] c = "Y" -> "y" [] c = "Z" -> "z" [] OTHER -> c

ToLowerCase(s) == [i \in 1..Len(s) |-> LowerChar(s[i])]

WhiteSpace == {" ", "\n", "\t", "\r"}

\* String.prototype.trim: drop leading and trailing white space
RECURSIVE TrimStart(_)
TrimStart(s) ==
    IF s /= <<>> /\ Head(s) \in WhiteSpace THEN TrimStart(Tail(s)) ELSE s

RECURSIVE TrimEnd(_)
TrimEnd(s) ==
    IF s /= <<>> /\ s[Len(s)] \in WhiteSpace
    THEN TrimEnd(SubSeq(s, 1, Len(s) - 1))
    ELSE s

Trim(s) == TrimEnd(TrimStart(s))

(* ------------------------- literals of the code ------------------------ *)

ServiceUnavailable ==
    <<"S", "e", "r", "v", "i", "c", "e", " ", "U", "n", "a", "v", "a", "i", "l", "a", "b", "l", "e">>

Overloaded == <<"o", "v", "e", "r", "l", "o", "a", "d", "e", "d">>

TrueLiteral == <<"t", "r", "u", "e">>

\* new Error("Failed to generate an answer from Gemini.")
FailedToGenerateMsg ==
    <<"F", "a", "i", "l", "e", "d", " ", "t", "o", " ", "g", "e", "n", "e", "r", "a", "t", "e", " ",
      "a", "n", " ", "a", "n", "s", "w", "e", "r", " ", "f", "r", "o", "m", " ",
      "G", "e", "m", "i", "n", "i", ".">>

GenericErrorMsg == "An unexpected error occurred while generating the answer."

OverloadedMsg ==
    "I'm sorry, the AI service is currently overloaded. Please try again in a few moments."

BothUnavailableMsg ==
    "I'm sorry, both our primary and backup AI services are currently unavailable. Please try again later."

NoVisualAidGenerated == "No visual aid generated."

(* --------------------- what the providers can do ----------------------- *)

\* a raised failure: e.message is a string, or is not there at all
Err(m) == [hasMessage |-> TRUE, message |-> m]

ErrNoMessage == [hasMessage |-> FALSE, message |-> <<>>]

NoError == [hasMessage |-> FALSE, message |-> <<"-">>]

\* failures a provider call can raise
Failures ==
    { Err(<<"5", "0", "3", " ", "S", "e", "r", "v", "i", "c", "e", " ",
            "U", "n", "a", "v", "a", "i", "l", "a", "b", "l", "e">>),
      Err(<<"m", "o", "d", "e", "l", " ", "i", "s", " ",
            "o", "v", "e", "r", "l", "o", "a", "d", "e", "d">>),
      Err(<<"O", "v", "e", "r", "l", "o", "a", "d", "e", "d">>),
      Err(<<"q", "u", "o", "t", "a">>),
      Err(<<>>),
      ErrNoMessage }

\* questions a caller can ask (non-empty)
Questions == {"what is a derivative", "explain recursion"}

\* texts the primary provider can generate
PrimaryTexts == {"A derivative measures...", "Recursion is..."}

\* the text field of the primary provider's response
PrimaryResponses == PrimaryTexts \cup {"", Undefined}

\* the text field of the decider's generation: present or undefined
DeciderOutputs ==
    { [present |-> TRUE, chars |-> <<"t", "r", "u", "e">>],
      [present |-> TRUE, chars |-> <<" ", "T", "r", "u", "e", "\n">>],
      [present |-> TRUE, chars |-> <<"f", "a", "l", "s", "e">>],
      [present |-> TRUE, chars |-> <<"t", "r", "u", "e", ".">>],
      [present |-> TRUE, chars |-> <<"T", "R", "U", "E">>],
      [present |-> TRUE, chars |-> <<"n", "o", "t", " ", "t", "r", "u", "e">>],
      [present |-> TRUE, chars |-> <<>>],
      [present |-> FALSE, chars |-> <<>>] }

\* the decider has produced nothing yet
NoDeciderText == [present |-> FALSE, chars |-> <<"-">>]

\* the media field of the image generation: null, or an object with a url
NoMedia == "<no media>"

MediaUrls == {"data:image/png;base64,AAAA", "data:image/png;base64,BBBB"}

\* choices[0].message.content of the secondary provider's JSON
SecondaryTexts == {"Fallback answer"}

SecondaryContents == SecondaryTexts \cup {"", Undefined}

(* ------------------------------ state ---------------------------------- *)

VARIABLES
    variant,            \* which definition of answerAcademicQuestionFlow is deployed
    calls,              \* orchestration calls started so far
    pc,                 \* where the current call is suspended
    question,           \* input.question
    answer,             \* const { text: answer }
    needsVisualAid,     \* const needsVisualAid
    e,                  \* the failure caught by the outer catch
    result,             \* what the call resolved to: {answer, visualAids?}
    thrown,             \* the message of the failure the call rejected with
    primaryCalls,       \* ai.generate calls for the answer, this call
    deciderCalls,       \* shouldGenerateVisualAids(...) calls by the flow, this call
    generatorCalls,     \* generateVisualAids(...) calls by the flow, this call
    secondaryCalls,     \* fetch(deepseek) calls, this call
    toolCalls,          \* tool invocations elected by the primary model, this call
    secondaryUserMsg,   \* messages[1].content of the fetch body
    primaryOutcome,     \* "none" | "text" | "empty" | "raised"
    deciderOutcome,     \* "none" | "true" | "false" | "raised"
    generatorOutcome,   \* "none" | "media" | "nomedia" | "raised"
    generatorResult,    \* what generateVisualAids returned
    secondaryOutcome,   \* "none" | "transport" | "http" | "badjson" | "nocontent" | "content"
    secondaryContent,   \* data.choices[0].message.content
    deciderText,        \* the text the decider's generation produced
    authorization,      \* the Authorization header of the fetch
    outstanding,        \* provider calls the flow has issued and not yet seen settle
    DEEPSEEK_API_KEY,   \* process.env.DEEPSEEK_API_KEY
    invocation,         \* concurrent calls: each invocation's continuation and input
    locals              \* concurrent calls: the local variables of the flow's body

\* ChatInterface (src/unnamed/part_002)
VARIABLES
    messages,           \* the chat history (useLocalStorage)
    input,              \* the text of the input field
    isLoading,          \* a request is being awaited
    pending,            \* the handleSubmit calls suspended at their await
    requests,           \* answerAcademicQuestion calls issued so far
    chatEvent,          \* the last thing that happened in the chat
    chatResult          \* what answerAcademicQuestion last resolved with

\* Whiteboard (src/src/components/whiteboard/Whiteboard.tsx)
VARIABLES
    prompt,             \* the text of the prompt field
    isGenerating,       \* a generation is being awaited
    diagramUrl,         \* the diagram shown, or null
    paths,              \* the freehand strokes
    isDrawing,          \* the mouse button is held on the canvas
    generation,         \* the last generateWhiteboardDiagram call
    generations         \* generateWhiteboardDiagram calls issued so far

\* PrivateRoute (src/unnamed/part_001)
VARIABLES
    user,               \* useAuth().user
    loading,            \* useAuth().loading
    pathname,           \* the page the router shows
    rendered,           \* what PrivateRoute last rendered
    pushes,             \* router.push("/login") calls issued so far
    pendingPush         \* a push has been issued and the navigation is under way

chatVars == << messages, input, isLoading, pending, requests, chatEvent, chatResult >>

whiteboardVars ==
    << prompt, isGenerating, diagramUrl, paths, isDrawing, generation, generations >>

routeVars == << user, loading, pathname, rendered, pushes, pendingPush >>

\* the state of the components
ui == << chatVars, whiteboardVars, routeVars >>

\* the state of the flow
flowVars ==
    << variant, calls, pc, question, answer, needsVisualAid, e, result, thrown,
       primaryCalls, deciderCalls, generatorCalls, secondaryCalls, toolCalls,
       secondaryUserMsg, primaryOutcome, deciderOutcome, generatorOutcome,
       generatorResult, secondaryOutcome, secondaryContent, deciderText,
       authorization, outstanding, DEEPSEEK_API_KEY, invocation, locals >>

vars == << flowVars, ui >>

\* the state outside one orchestration call: the deployed definition, the
\* environment and the components
other == << DEEPSEEK_API_KEY, invocation, locals, ui >>

\* the variables that record what the providers did
history ==
    << primaryOutcome, deciderOutcome, deciderText, generatorOutcome,
       generatorResult, secondaryOutcome, secondaryContent >>

\* the counters of provider calls
counters ==
    << primaryCalls, deciderCalls, generatorCalls, secondaryCalls, toolCalls,
       secondaryUserMsg, authorization >>

\* the counters the fallback's own handlers leave alone
fallbackFrame ==
    << primaryCalls, deciderCalls, generatorCalls, toolCalls, secondaryUserMsg,
       authorization >>

\* process.env.DEEPSEEK_API_KEY: set, or not configured
ApiKeys == {"sk-deepseek", Undefined}

\* `Bearer ${process.env.DEEPSEEK_API_KEY}`
Bearer(key) == <<"Bearer", key>>

\* the provider call the flow is suspended on
Awaited ==
    CASE pc = "awaitPrimary" -> {"primary"}
      [] pc = "awaitDecider" -> {"decider"}
      [] pc = "awaitGenerator" -> {"generator"}
      [] pc \in {"awaitFetch", "awaitErrorBody", "awaitJson"} -> {"secondary"}
      [] OTHER -> {}

NoResult == [answer |-> Absent, visualAids |-> Absent]

Variants == {1, 2}

\* tools: [shouldGenerateVisualAids, generateVisualAids]
Tools == {"shouldGenerateVisualAids", "generateVisualAids"}

Done == {"returned", "rejected"}

\* callers whose orchestration calls run concurrently
Callers == {"c1", "c2"}

\* an invocation that has not been started
IdleInvocation ==
    [pc |-> "idle", question |-> Undefined, trace |-> <<>>, result |-> NoResult,
     thrown |-> Absent]

\* the locals of the flow's body before they are assigned
FreshLocals == [answer |-> Undefined, needsVisualAid |-> FALSE]

\* the state of one orchestration call
InitCall ==
    /\ calls = 0
    /\ pc = "idle"
    /\ question = Undefined
    /\ answer = Undefined
    /\ needsVisualAid = FALSE
    /\ e = NoError
    /\ result = NoResult
    /\ thrown = Absent
    /\ primaryCalls = 0
    /\ deciderCalls = 0
    /\ generatorCalls = 0
    /\ secondaryCalls = 0
    /\ toolCalls = [t \in Tools |-> 0]
    /\ secondaryUserMsg = Absent
    /\ primaryOutcome = "none"
    /\ deciderOutcome = "none"
    /\ generatorOutcome = "none"
    /\ generatorResult = Absent
    /\ secondaryOutcome = "none"
    /\ secondaryContent = Absent
    /\ deciderText = NoDeciderText
    /\ authorization = Absent
    /\ outstanding = {}

\* no concurrent invocation exists
InitConcurrent ==
    /\ invocation = [c \in Callers |-> IdleInvocation]
    /\ locals = [c \in Callers |-> FreshLocals]

\* a null reference
Null == "<null>"

\* ChatInterface as mounted: empty history, empty input, nothing awaited
InitChat ==
    /\ messages = <<>>
    /\ input = <<>>
    /\ isLoading = FALSE
    /\ pending = {}
    /\ requests = 0
    /\ chatEvent = "mounted"
    /\ chatResult = [answer |-> <<>>, visualAids |-> Absent]

\* no generateWhiteboardDiagram call has been made
NoGeneration == [status |-> "none", prompt |-> <<>>, media |-> Absent, thrown |-> Absent]

\* Whiteboard as mounted
InitWhiteboard ==
    /\ prompt = <<>>
    /\ isGenerating = FALSE
    /\ diagramUrl = Null
    /\ paths = <<>>
    /\ isDrawing = FALSE
    /\ generation = NoGeneration
    /\ generations = 0

\* PrivateRoute as first rendered on the home page, authentication loading
InitRoute ==
    /\ user = Null
    /\ loading = TRUE
    /\ pathname = "/"
    /\ rendered = "spinner"
    /\ pushes = 0
    /\ pendingPush = FALSE

Init ==
    /\ variant \in Variants
    /\ InitCall
    /\ InitConcurrent
    /\ DEEPSEEK_API_KEY \in ApiKeys
    /\ InitChat
    /\ InitWhiteboard
    /\ InitRoute

(* ----------------------- pieces of the flow ---------------------------- *)

\* e.message && (e.message.includes('Service Unavailable') || e.message.includes('overloaded'))
IsRetriableAlways(err) == TRUE

IsRetriable(err) ==
    /\ err.hasMessage
    /\ err.message /= <<>>
    /\ (Includes(err.message, ServiceUnavailable) \/ Includes(err.message, Overloaded))

\* messages[1].content of the fallback request
FallbackUserContentPrompted(q) == "Answer the following question: "

FallbackUserContent(q) == q

\* text?.trim().toLowerCase() === 'true'
ParseDecisionLoose(out) == out.present /\ Includes(ToLowerCase(out.chars), TrueLiteral)

ParseDecision(out) == out.present /\ ToLowerCase(Trim(out.chars)) = TrueLiteral

\* if (needsVisualAid) { visualAids = await generateVisualAids(...) }
ShouldCallGeneratorAlways(needs) == TRUE

ShouldCallGenerator(needs) == needs

\* generateVisualAids: if (!media) return 'No visual aid generated.'; return media.url
GenerateVisualAidsResultNoSentinel(media) ==
    IF media = NoMedia THEN Undefined ELSE media

GenerateVisualAidsResult(media) ==
    IF media = NoMedia THEN NoVisualAidGenerated ELSE media

\* return { answer, visualAids }
SuccessAnswerDropsAid(ans, va) == [answer |-> ans, visualAids |-> Undefined]

SuccessAnswer(ans, va) == [answer |-> ans, visualAids |-> va]

\* return { answer }   (fallback success)
FallbackAnswerWithAid(content) == [answer |-> content, visualAids |-> NoVisualAidGenerated]

FallbackAnswer(content) == [answer |-> content, visualAids |-> Absent]

\* return { answer: "I'm sorry, both our primary and backup ..." }
FallbackFailedAnswerLeaksError ==
    [answer |-> "DeepSeek API error: 500 Internal Server Error - {}", visualAids |-> Absent]

FallbackFailedAnswerOverloaded == [answer |-> OverloadedMsg, visualAids |-> Absent]

FallbackFailedAnswer == [answer |-> BothUnavailableMsg, visualAids |-> Absent]

\* variant 1: errorMessage chosen by the catch block
ErrorMessage1(err) == IF IsRetriable(err) THEN OverloadedMsg ELSE GenericErrorMsg

\* the call resolves to r
Return(r) ==
    /\ pc' = "returned"
    /\ result' = r
    /\ thrown' = Absent
    /\ outstanding' = outstanding \ Awaited

\* the call rejects with message m
Throw(m) ==
    /\ pc' = "rejected"
    /\ thrown' = m
    /\ result' = NoResult
    /\ outstanding' = outstanding \ Awaited

\* the outer catch block, entered with the failure err
Catch(err) ==
    /\ e' = err
    /\ IF variant = 1
       THEN /\ Return([answer |-> ErrorMessage1(err), visualAids |-> Absent])
            /\ UNCHANGED << secondaryCalls, secondaryUserMsg, authorization >>
       ELSE IF IsRetriable(err)
            THEN /\ pc' = "awaitFetch"
                 /\ secondaryCalls' = secondaryCalls + 1
                 /\ secondaryUserMsg' = FallbackUserContent(question)
                 /\ authorization' = Bearer(DEEPSEEK_API_KEY)
                 /\ outstanding' = (outstanding \ Awaited) \cup {"secondary"}
                 /\ UNCHANGED << result, thrown >>
            ELSE /\ Throw(GenericErrorMsg)
                 /\ UNCHANGED << secondaryCalls, secondaryUserMsg, authorization >>

\* the inner catch block: any failure of the fallback
FallbackCatchRetries ==
    IF secondaryCalls < 2
    THEN /\ pc' = "awaitFetch"
         /\ secondaryCalls' = secondaryCalls + 1
         /\ UNCHANGED << result, thrown, outstanding >>
    ELSE /\ Return(FallbackFailedAnswer)
         /\ UNCHANGED secondaryCalls

FallbackCatch ==
    /\ Return(FallbackFailedAnswer)
    /\ UNCHANGED secondaryCalls

(* ------------------------------ actions -------------------------------- *)

\* answerAcademicQuestion(input): the flow enters its try block and awaits
\* the primary ai.generate call
Start(q) ==
    /\ pc \in {"idle"} \cup Done
    /\ calls < MaxCalls
    /\ calls' = calls + 1
    /\ question' = q
    /\ answer' = Undefined
    /\ needsVisualAid' = FALSE
    /\ e' = NoError
    /\ result' = NoResult
    /\ thrown' = Absent
    /\ primaryCalls' = 1
    /\ deciderCalls' = 0
    /\ generatorCalls' = 0
    /\ secondaryCalls' = 0
    /\ toolCalls' = [t \in Tools |-> 0]
    /\ secondaryUserMsg' = Absent
    /\ primaryOutcome' = "none"
    /\ deciderOutcome' = "none"
    /\ generatorOutcome' = "none"
    /\ generatorResult' = Absent
    /\ secondaryOutcome' = "none"
    /\ secondaryContent' = Absent
    /\ deciderText' = NoDeciderText
    /\ authorization' = Absent
    /\ outstanding' = {"primary"}
    /\ pc' = "awaitPrimary"
    /\ UNCHANGED << other, variant >>

\* variant 2 offers the tools to the primary model, which may invoke one of
\* them while generating; the flow reads only the text of the response
PrimaryElectsTool(t) ==
    /\ pc = "awaitPrimary"
    /\ variant = 2
    /\ toolCalls[t] < MaxToolCalls
    /\ toolCalls' = [toolCalls EXCEPT ![t] = @ + 1]
    /\ UNCHANGED << other, variant, calls, pc, question, answer, needsVisualAid, e, result,
                    thrown, primaryCalls, deciderCalls, generatorCalls, secondaryCalls,
                    secondaryUserMsg, authorization, outstanding, history >>

\* the primary ai.generate call resolves with text t
PrimaryResolves(t) ==
    /\ pc = "awaitPrimary"
    /\ answer' = t
    /\ IF Falsy(t)
       THEN \* throw new Error("Failed to generate an answer from Gemini.")
            /\ primaryOutcome' = "empty"
            /\ Catch(Err(FailedToGenerateMsg))
            /\ UNCHANGED << deciderCalls, generatorCalls >>
       ELSE /\ primaryOutcome' = "text"
            /\ IF variant = 1
               THEN /\ pc' = "awaitGenerator"
                    /\ generatorCalls' = generatorCalls + 1
                    /\ outstanding' = (outstanding \ Awaited) \cup {"generator"}
                    /\ UNCHANGED deciderCalls
               ELSE /\ pc' = "awaitDecider"
                    /\ deciderCalls' = deciderCalls + 1
                    /\ outstanding' = (outstanding \ Awaited) \cup {"decider"}
                    /\ UNCHANGED generatorCalls
            /\ UNCHANGED << e, result, thrown, secondaryCalls, secondaryUserMsg,
                            authorization >>
    /\ UNCHANGED << other, variant, calls, question, needsVisualAid, primaryCalls,
                    toolCalls, deciderOutcome, deciderText, generatorOutcome,
                    generatorResult,
                    secondaryOutcome, secondaryContent >>

\* the primary ai.generate call raises err
PrimaryRejects(err) ==
    /\ pc = "awaitPrimary"
    /\ primaryOutcome' = "raised"
    /\ Catch(err)
    /\ UNCHANGED << other, variant, calls, question, answer, needsVisualAid, primaryCalls,
                    deciderCalls, generatorCalls, toolCalls,
                    deciderOutcome, deciderText, generatorOutcome, generatorResult,
                    secondaryOutcome, secondaryContent >>

\* shouldGenerateVisualAids resolves: its generation produced out
DeciderResolves(out) ==
    /\ pc = "awaitDecider"
    /\ needsVisualAid' = ParseDecision(out)
    /\ deciderOutcome' = IF ParseDecision(out) THEN "true" ELSE "false"
    /\ deciderText' = out
    /\ IF ShouldCallGenerator(ParseDecision(out))
       THEN /\ pc' = "awaitGenerator"
            /\ generatorCalls' = generatorCalls + 1
            /\ outstanding' = (outstanding \ Awaited) \cup {"generator"}
            /\ UNCHANGED << result, thrown >>
       ELSE /\ Return(SuccessAnswer(answer, Undefined))
            /\ UNCHANGED generatorCalls
    /\ UNCHANGED << other, variant, calls, question, answer, e, primaryCalls, deciderCalls,
                    secondaryCalls, toolCalls, secondaryUserMsg, authorization,
                    primaryOutcome,
                    generatorOutcome, generatorResult, secondaryOutcome,
                    secondaryContent >>

\* shouldGenerateVisualAids raises err
DeciderRejects(err) ==
    /\ pc = "awaitDecider"
    /\ deciderOutcome' = "raised"
    /\ Catch(err)
    /\ UNCHANGED << other, variant, calls, question, answer, needsVisualAid, primaryCalls,
                    deciderCalls, generatorCalls, toolCalls, primaryOutcome,
                    deciderText, generatorOutcome, generatorResult, secondaryOutcome,
                    secondaryContent >>

\* generateVisualAids resolves: the image generation produced media
GeneratorResolves(media) ==
    /\ pc = "awaitGenerator"
    /\ generatorOutcome' = IF media = NoMedia THEN "nomedia" ELSE "media"
    /\ generatorResult' = GenerateVisualAidsResult(media)
    /\ Return(SuccessAnswer(answer, GenerateVisualAidsResult(media)))
    /\ UNCHANGED << other, variant, calls, question, answer, needsVisualAid, e, counters,
                    primaryOutcome, deciderOutcome, deciderText, secondaryOutcome,
                    secondaryContent >>

\* generateVisualAids raises err
GeneratorRejects(err) ==
    /\ pc = "awaitGenerator"
    /\ generatorOutcome' = "raised"
    /\ Catch(err)
    /\ UNCHANGED << other, variant, calls, question, answer, needsVisualAid, primaryCalls,
                    deciderCalls, generatorCalls, toolCalls, primaryOutcome,
                    deciderOutcome, deciderText, generatorResult, secondaryOutcome,
                    secondaryContent >>

\* fetch(...) raises: transport failure
FetchRejects ==
    /\ pc = "awaitFetch"
    /\ secondaryOutcome' = "transport"
    /\ FallbackCatch
    /\ UNCHANGED << other, variant, calls, question, answer, needsVisualAid, e, fallbackFrame,
                    primaryOutcome, deciderOutcome, deciderText, generatorOutcome,
                    generatorResult, secondaryContent >>

\* fetch(...) resolves with a response; ok is res.ok
FetchResolves(ok) ==
    /\ pc = "awaitFetch"
    /\ pc' = IF ok THEN "awaitJson" ELSE "awaitErrorBody"
    /\ UNCHANGED << other, variant, calls, question, answer, needsVisualAid, e, result,
                    thrown, counters, outstanding, history >>

\* if (!res.ok): res.text() settles either way, and the failure built from
\* the status and the body is caught by the inner catch
ErrorBodySettles ==
    /\ pc = "awaitErrorBody"
    /\ secondaryOutcome' = "http"
    /\ FallbackCatch
    /\ UNCHANGED << other, variant, calls, question, answer, needsVisualAid, e, fallbackFrame,
                    primaryOutcome, deciderOutcome, deciderText, generatorOutcome,
                    generatorResult, secondaryContent >>

\* res.json() raises: the body is not JSON
JsonRejects ==
    /\ pc = "awaitJson"
    /\ secondaryOutcome' = "badjson"
    /\ FallbackCatch
    /\ UNCHANGED << other, variant, calls, question, answer, needsVisualAid, e, fallbackFrame,
                    primaryOutcome, deciderOutcome, deciderText, generatorOutcome,
                    generatorResult, secondaryContent >>

\* res.json() resolves; content is data?.choices?.[0]?.message?.content
JsonResolves(content) ==
    /\ pc = "awaitJson"
    /\ secondaryContent' = content
    /\ IF Falsy(content)
       THEN \* throw new Error("DeepSeek also failed to provide a valid response.")
            /\ secondaryOutcome' = "nocontent"
            /\ FallbackCatch
       ELSE /\ secondaryOutcome' = "content"
            /\ Return(FallbackAnswer(content))
            /\ UNCHANGED secondaryCalls
    /\ UNCHANGED << other, variant, calls, question, answer, needsVisualAid, e,
                    fallbackFrame, primaryOutcome, deciderOutcome, deciderText,
                    generatorOutcome,
                    generatorResult >>

Next ==
    \/ \E q \in Questions : Start(q)
    \/ \E t \in Tools : PrimaryElectsTool(t)
    \/ \E t \in PrimaryResponses : PrimaryResolves(t)
    \/ \E err \in Failures : PrimaryRejects(err)
    \/ \E out \in DeciderOutputs : DeciderResolves(out)
    \/ \E err \in Failures : DeciderRejects(err)
    \/ \E media \in MediaUrls \cup {NoMedia} : GeneratorResolves(media)
    \/ \E err \in Failures : GeneratorRejects(err)
    \/ FetchRejects
    \/ \E ok \in BOOLEAN : FetchResolves(ok)
    \/ ErrorBodySettles
    \/ JsonRejects
    \/ \E content \in SecondaryContents : JsonResolves(content)

Spec == Init /\ [][Next]_vars

TypeOK ==
    /\ variant \in Variants
    /\ calls \in 0..MaxCalls
    /\ pc \in {"idle", "awaitPrimary", "awaitDecider", "awaitGenerator", "awaitFetch",
               "awaitErrorBody", "awaitJson", "returned", "rejected"}
    /\ primaryCalls \in 0..1
    /\ secondaryCalls \in 0..1

(* -------------------------- concurrent calls --------------------------- *)
(* Several callers run the flow at once.  Each invocation has its own      *)
(* continuation and input; the locals of the flow's body (answer,          *)
(* needsVisualAid) are declared inside the async function, so each         *)
(* invocation has its own copy of them.  A provider's reply to one         *)
(* invocation is a step of that invocation only.                           *)

\* the locals an invocation reads and writes: its own closure's
LocalsOfModuleLevel(c) == "c1"

LocalsOf(c) == c

\* failures, decider outputs and media the providers produce here
ConcFailures ==
    { Err(<<"m", "o", "d", "e", "l", " ", "i", "s", " ",
            "o", "v", "e", "r", "l", "o", "a", "d", "e", "d">>),
      Err(<<"q", "u", "o", "t", "a">>) }

ConcDeciderOutputs ==
    { [present |-> TRUE, chars |-> <<"t", "r", "u", "e">>],
      [present |-> TRUE, chars |-> <<"f", "a", "l", "s", "e">>] }

ConcMedia == {"data:image/png;base64,AAAA", NoMedia}

\* what the awaited call can resolve with, by await point
ResolveValues(at) ==
    CASE at = "awaitPrimary" -> PrimaryResponses
      [] at = "awaitDecider" -> ConcDeciderOutputs
      [] at = "awaitGenerator" -> ConcMedia
      [] at = "awaitFetch" -> BOOLEAN
      [] at = "awaitErrorBody" -> {""}
      [] at = "awaitJson" -> SecondaryContents
      [] OTHER -> {}

AwaitPoints ==
    {"awaitPrimary", "awaitDecider", "awaitGenerator", "awaitFetch", "awaitErrorBody",
     "awaitJson"}

\* a flow that has just issued its primary call
StartState ==
    [pc |-> "awaitPrimary", answer |-> Undefined, needsVisualAid |-> FALSE,
     result |-> NoResult, thrown |-> Absent]

\* the outer catch block run on the state st of one invocation
CatchStep(v, st, err) ==
    IF v = 1
    THEN [st EXCEPT !.pc = "returned",
                    !.result = [answer |-> ErrorMessage1(err), visualAids |-> Absent]]
    ELSE IF IsRetriable(err)
         THEN [st EXCEPT !.pc = "awaitFetch"]
         ELSE [st EXCEPT !.pc = "rejected", !.thrown = GenericErrorMsg]

\* the inner catch block
FallbackCatchStep(st) == [st EXCEPT !.pc = "returned", !.result = FallbackFailedAnswer]

\* the code that runs when the awaited call resolves with val
StepResolve(v, st, val) ==
    CASE st.pc = "awaitPrimary" ->
            IF Falsy(val)
            THEN CatchStep(v, [st EXCEPT !.answer = val], Err(FailedToGenerateMsg))
            ELSE [st EXCEPT !.answer = val,
                            !.pc = IF v = 1 THEN "awaitGenerator" ELSE "awaitDecider"]
      [] st.pc = "awaitDecider" ->
            IF ShouldCallGenerator(ParseDecision(val))
            THEN [st EXCEPT !.needsVisualAid = ParseDecision(val), !.pc = "awaitGenerator"]
            ELSE [st EXCEPT !.needsVisualAid = ParseDecision(val), !.pc = "returned",
                            !.result = SuccessAnswer(st.answer, Undefined)]
      [] st.pc = "awaitGenerator" ->
            [st EXCEPT !.pc = "returned",
                       !.result = SuccessAnswer(st.answer, GenerateVisualAidsResult(val))]
      [] st.pc = "awaitFetch" ->
            [st EXCEPT !.pc = IF val THEN "awaitJson" ELSE "awaitErrorBody"]
      [] st.pc = "awaitErrorBody" -> FallbackCatchStep(st)
      [] st.pc = "awaitJson" ->
            IF Falsy(val)
            THEN FallbackCatchStep(st)
            ELSE [st EXCEPT !.pc = "returned", !.result = FallbackAnswer(val)]

\* the code that runs when the awaited call raises err
StepReject(v, st, err) ==
    IF st.pc \in {"awaitPrimary", "awaitDecider", "awaitGenerator"}
    THEN CatchStep(v, st, err)
    ELSE FallbackCatchStep(st)

\* one reply applied to the state of an invocation
ApplyReply(v, st, reply) ==
    IF reply.kind = "resolve"
    THEN StepResolve(v, st, reply.val)
    ELSE StepReject(v, st, reply.val)

\* the flow run alone on the replies of trace
RECURSIVE RunAlone(_, _, _)
RunAlone(v, st, trace) ==
    IF trace = <<>>
    THEN st
    ELSE RunAlone(v, ApplyReply(v, st, Head(trace)), Tail(trace))

\* the state of invocation c as its code sees it
StateOf(c) ==
    [pc |-> invocation[c].pc,
     answer |-> locals[LocalsOf(c)].answer,
     needsVisualAid |-> locals[LocalsOf(c)].needsVisualAid,
     result |-> invocation[c].result,
     thrown |-> invocation[c].thrown]

\* invocation c takes the step that leads to state st after reply
Continue(c, st, reply) ==
    /\ invocation' =
          [invocation EXCEPT ![c] =
              [pc |-> st.pc, question |-> invocation[c].question,
               trace |-> Append(invocation[c].trace, reply),
               result |-> st.result, thrown |-> st.thrown]]
    /\ locals' =
          [locals EXCEPT ![LocalsOf(c)] =
              [answer |-> st.answer, needsVisualAid |-> st.needsVisualAid]]

\* caller c calls answerAcademicQuestion({question: q})
ConcStart(c, q) ==
    /\ invocation[c].pc = "idle"
    /\ invocation' = [invocation EXCEPT ![c] = [@ EXCEPT !.pc = "awaitPrimary",
                                                          !.question = q]]
    /\ UNCHANGED << locals, variant, DEEPSEEK_API_KEY, calls, pc, question, answer,
                    needsVisualAid, e, result, thrown, counters, outstanding, history,
                    ui >>

\* the call invocation c awaits resolves with val
ConcResolves(c, val) ==
    /\ invocation[c].pc \in AwaitPoints
    /\ val \in ResolveValues(invocation[c].pc)
    /\ Continue(c, StepResolve(variant, StateOf(c), val), [kind |-> "resolve", val |-> val])
    /\ UNCHANGED << variant, DEEPSEEK_API_KEY, calls, pc, question, answer,
                    needsVisualAid, e, result, thrown, counters, outstanding, history,
                    ui >>

\* the call invocation c awaits raises err
ConcRejects(c, err) ==
    /\ invocation[c].pc \in AwaitPoints
    /\ Continue(c, StepReject(variant, StateOf(c), err), [kind |-> "reject", val |-> err])
    /\ UNCHANGED << variant, DEEPSEEK_API_KEY, calls, pc, question, answer,
                    needsVisualAid, e, result, thrown, counters, outstanding, history,
                    ui >>

NextConcurrent ==
    \/ \E c \in Callers, q \in Questions : ConcStart(c, q)
    \/ \E c \in Callers :
          \E val \in ResolveValues(invocation[c].pc) : ConcResolves(c, val)
    \/ \E c \in Callers, err \in ConcFailures : ConcRejects(c, err)

SpecConcurrent == Init /\ [][NextConcurrent]_vars

(* ---------------------------- ChatInterface ---------------------------- *)
(* src/unnamed/part_002.  handleSubmit runs up to its await in one step    *)
(* and from the settlement of answerAcademicQuestion to its end in         *)
(* another; React renders between the two, so the handlers read the state  *)
(* the setters last wrote.                                                 *)

\* what the user can type into the input field
ChatInputs == { <<>>, <<" ">>, <<"h", "i">>, <<"h", "i", " ">> }

\* what answerAcademicQuestion can resolve with
ChatResults ==
    { [answer |-> <<"4">>, visualAids |-> Absent],
      [answer |-> <<"4">>, visualAids |-> "data:image/png;base64,AAAA"] }

\* reading a property of an object: undefined when the key is missing
Read(v) == IF v = Absent THEN Undefined ELSE v

\* { role: 'user', content: input }; id is the identity of the object
UserMessage(text, id) ==
    [id |-> id, role |-> "user", content |-> text, visualAids |-> Absent]

\* { role: 'assistant', content: result.answer, visualAids: result.visualAids }
AssistantMessage(res, id) ==
    [id |-> id, role |-> "assistant", content |-> res.answer,
     visualAids |-> Read(res.visualAids)]

\* the setter useLocalStorage returns, called with an updater function: the
\* prev it hands to the updater is the history last stored
PrevStored(stored) == stored

RemoveOptimisticByContent(prev, userMessage) ==
    LET Keep(m) == ~(m.role = userMessage.role /\ m.content = userMessage.content)
    IN  SelectSeq(prev, Keep)

\* prev.filter(m => m !== userMessage)
RemoveOptimistic(prev, userMessage) ==
    LET Keep(m) == m.id # userMessage.id
    IN  SelectSeq(prev, Keep)

RefusesSubmitWhenBusyOnly(text, busy) == busy

\* if (!input.trim() || isLoading) return;
RefusesSubmit(text, busy) == Trim(text) = <<>> \/ busy

\* what a chat step leaves alone
chatFrame == << flowVars, whiteboardVars, routeVars >>

\* onChange of the input field, which is disabled while a request is awaited
ChatType(text) ==
    /\ ~isLoading
    /\ input' = text
    /\ chatEvent' = "typed"
    /\ UNCHANGED << messages, isLoading, pending, requests, chatResult, chatFrame >>

\* handleSubmit up to `await answerAcademicQuestion({ question: currentInput })`
handleSubmit ==
    IF RefusesSubmit(input, isLoading)
    THEN /\ chatEvent' = "refused"
         /\ UNCHANGED << messages, input, isLoading, pending, requests, chatResult,
                         chatFrame >>
    ELSE /\ requests < MaxSubmits
         /\ LET userMessage == UserMessage(input, 2 * requests + 1)
                currentInput == input
                Add(prev) == Append(prev, userMessage)
            IN  /\ messages' = Add(PrevStored(messages))
                /\ pending' = pending \cup
                                 {[userMessage |-> userMessage,
                                   currentInput |-> currentInput,
                                   before |-> messages]}
         /\ input' = <<>>
         /\ isLoading' = TRUE
         /\ requests' = requests + 1
         /\ chatEvent' = "submitted"
         /\ UNCHANGED << chatResult, chatFrame >>

\* the awaited call of c resolves with res: the rest of the try block, finally
handleSubmitResolves(c, res) ==
    /\ c \in pending
    /\ LET assistantMessage == AssistantMessage(res, c.userMessage.id + 1)
           Add(prev) == Append(prev, assistantMessage)
       IN  messages' = Add(PrevStored(messages))
    /\ isLoading' = FALSE
    /\ pending' = pending \ {c}
    /\ chatResult' = res
    /\ chatEvent' = "resolved"
    /\ UNCHANGED << input, requests, chatFrame >>

\* the awaited call of c rejects: the catch block, finally
handleSubmitRejects(c) ==
    /\ c \in pending
    /\ LET Remove(prev) == RemoveOptimistic(prev, c.userMessage)
       IN  messages' = Remove(PrevStored(messages))
    /\ input' = c.currentInput
    /\ isLoading' = FALSE
    /\ pending' = pending \ {c}
    /\ chatEvent' = "rejected"
    /\ UNCHANGED << requests, chatResult, chatFrame >>

\* an awaited answerAcademicQuestion call settles
ChatSettles ==
    \E c \in pending :
        \/ \E res \in ChatResults : handleSubmitResolves(c, res)
        \/ handleSubmitRejects(c)

NextChat ==
    \/ \E text \in ChatInputs : ChatType(text)
    \/ handleSubmit
    \/ \E c \in pending, res \in ChatResults : handleSubmitResolves(c, res)
    \/ \E c \in pending : handleSubmitRejects(c)

\* the promise handleSubmit awaits settles, and its continuation then runs
SpecChat == Init /\ [][NextChat]_vars /\ WF_vars(ChatSettles)

(* ------------------------------ Whiteboard ----------------------------- *)
(* src/src/components/whiteboard/Whiteboard.tsx and the flow it calls,     *)
(* generateWhiteboardDiagramFlow (src/unnamed/part_000).  handleGenerate   *)
(* runs up to its await in one step; the provider's reply, the rest of the *)
(* flow and the rest of handleGenerate run in another.                     *)

\* what the user can type into the prompt field
WhiteboardPrompts == { <<>>, <<" ">>, <<"H", "2", "O">> }

\* what getCoordinates can return besides null
Points == {"10.00 20.00"}

\* e.button: the main button and another one
Buttons == {0, 2}

\* 'No diagram was generated.'
NoDiagramMsg == "No diagram was generated."

\* a failure of the image provider itself
ProviderFailureMsg == "503 Service Unavailable"

\* { points: [coords], stroke: '#0a0a0a', strokeWidth: 3 }
NewPath(coords) == [points |-> <<coords>>, stroke |-> "#0a0a0a", strokeWidth |-> 3]

generateWhiteboardDiagramFlowSoft(media) ==
    [thrown |-> Absent,
     diagramDataUri |-> IF media = NoMedia THEN NoVisualAidGenerated ELSE media]

\* the flow after `await ai.generate(...)`: media is what the provider returned
generateWhiteboardDiagramFlow(media) ==
    IF media = NoMedia
    THEN [thrown |-> NoDiagramMsg, diagramDataUri |-> Absent]
    ELSE [thrown |-> Absent, diagramDataUri |-> media]

RefusesGenerateEmptyOnly(text) == text = <<>>

\* if (!prompt.trim()) return;
RefusesGenerate(text) == Trim(text) = <<>>

\* what a whiteboard step leaves alone
whiteboardFrame == << flowVars, chatVars, routeVars >>

\* onChange of the prompt field, which is disabled while generating
setPrompt(text) ==
    /\ ~isGenerating
    /\ prompt' = text
    /\ UNCHANGED << isGenerating, diagramUrl, paths, isDrawing, generation,
                    generations, whiteboardFrame >>

\* the form's submit event, which the disabled field and button hold back
\* while generating: handleGenerate up to `await generateWhiteboardDiagram`
handleGenerate ==
    /\ ~isGenerating
    /\ IF RefusesGenerate(prompt)
       THEN UNCHANGED << isGenerating, diagramUrl, paths, generation, generations >>
       ELSE /\ generations < MaxGenerations
            /\ isGenerating' = TRUE
            /\ diagramUrl' = Null
            /\ paths' = <<>>
            /\ generation' = [status |-> "pending", prompt |-> prompt,
                              media |-> Absent, thrown |-> Absent]
            /\ generations' = generations + 1
    /\ UNCHANGED << prompt, isDrawing, whiteboardFrame >>

\* the provider answers with media (or without): the flow returns or throws,
\* then the rest of handleGenerate runs
DiagramResolves(media) ==
    /\ generation.status = "pending"
    /\ LET res == generateWhiteboardDiagramFlow(media)
       IN  IF res.thrown = Absent
           THEN /\ diagramUrl' = res.diagramDataUri
                /\ generation' = [generation EXCEPT !.status = "resolved",
                                                    !.media = media]
           ELSE /\ UNCHANGED diagramUrl
                /\ generation' = [generation EXCEPT !.status = "raised",
                                                    !.media = media,
                                                    !.thrown = res.thrown]
    /\ isGenerating' = FALSE
    /\ UNCHANGED << prompt, paths, isDrawing, generations, whiteboardFrame >>

\* the provider call raises: the flow rejects, catch and finally run
DiagramRejects ==
    /\ generation.status = "pending"
    /\ generation' = [generation EXCEPT !.status = "raised",
                                        !.thrown = ProviderFailureMsg]
    /\ isGenerating' = FALSE
    /\ UNCHANGED << prompt, diagramUrl, paths, isDrawing, generations,
                    whiteboardFrame >>

handleMouseDown(button, coords) ==
    /\ IF diagramUrl # Null \/ button # 0
       THEN UNCHANGED << isDrawing, paths >>
       ELSE /\ isDrawing' = TRUE
            /\ IF coords # Null
               THEN /\ Len(paths) < MaxPaths
                    /\ paths' = Append(paths, NewPath(coords))
               ELSE UNCHANGED paths
    /\ UNCHANGED << prompt, isGenerating, diagramUrl, generation, generations,
                    whiteboardFrame >>

handleMouseMove(coords) ==
    /\ IF ~isDrawing \/ Len(paths) = 0 \/ coords = Null
       THEN UNCHANGED paths
       ELSE /\ Len(paths[Len(paths)].points) < MaxPoints
            /\ paths' = [paths EXCEPT ![Len(paths)].points = Append(@, coords)]
    /\ UNCHANGED << prompt, isGenerating, diagramUrl, isDrawing, generation,
                    generations, whiteboardFrame >>

handleMouseUp ==
    /\ isDrawing' = FALSE
    /\ UNCHANGED << prompt, isGenerating, diagramUrl, paths, generation,
                    generations, whiteboardFrame >>

handleMouseLeave ==
    /\ isDrawing' = FALSE
    /\ UNCHANGED << prompt, isGenerating, diagramUrl, paths, generation,
                    generations, whiteboardFrame >>

clearWhiteboard ==
    /\ paths' = <<>>
    /\ diagramUrl' = Null
    /\ prompt' = <<>>
    /\ UNCHANGED << isGenerating, isDrawing, generation, generations,
                    whiteboardFrame >>

\* the awaited generateWhiteboardDiagram call settles
DiagramSettles ==
    \/ \E media \in MediaUrls \cup {NoMedia} : DiagramResolves(media)
    \/ DiagramRejects

NextWhiteboard ==
    \/ \E text \in WhiteboardPrompts : setPrompt(text)
    \/ handleGenerate
    \/ \E media \in MediaUrls \cup {NoMedia} : DiagramResolves(media)
    \/ DiagramRejects
    \/ \E button \in Buttons, coords \in Points \cup {Null} :
          handleMouseDown(button, coords)
    \/ \E coords \in Points \cup {Null} : handleMouseMove(coords)
    \/ handleMouseUp
    \/ handleMouseLeave
    \/ clearWhiteboard

\* the promise handleGenerate awaits settles, and its continuation then runs
SpecWhiteboard == Init /\ [][NextWhiteboard]_vars /\ WF_vars(DiagramSettles)

(* ----------------------------- PrivateRoute ---------------------------- *)
(* src/unnamed/part_001, wrapping the pages src/src/app/page.tsx and       *)
(* src/src/app/whiteboard/page.tsx.  A render and the effect that follows  *)
(* its commit are one step: the effect reads the user and loading of that  *)
(* render.                                                                 *)

\* the users that can sign in
Users == {"alice", "bob"}

\* the pages wrapped in PrivateRoute
ProtectedPages == {"/", "/whiteboard"}

\* the page the effect pushes
LoginPage == "/login"

\* the children the page passes to PrivateRoute
Children(page) == IF page = "/" THEN "ChatInterface" ELSE "Whiteboard"

RenderUserFirst(u, l, page) ==
    IF u # Null THEN Children(page) ELSE IF l THEN "spinner" ELSE "nothing"

\* what PrivateRoute returns for useAuth() = {user: u, loading: l}
Render(u, l, page) ==
    IF l THEN "spinner" ELSE IF u # Null THEN Children(page) ELSE "nothing"

ShouldRedirectWithoutUser(u, l) == u = Null

\* if (!loading && !user)
ShouldRedirect(u, l) == ~l /\ u = Null

\* PrivateRoute is on the page shown
Mounted == pathname \in ProtectedPages

\* what a routing step leaves alone
routeFrame == << flowVars, chatVars, whiteboardVars >>

\* PrivateRoute renders with {user: u, loading: l} and its effect runs
Commit(u, l, page) ==
    /\ rendered' = Render(u, l, page)
    /\ IF ShouldRedirect(u, l)
       THEN /\ pushes < MaxRedirects
            /\ pushes' = pushes + 1
            /\ pendingPush' = TRUE
       ELSE UNCHANGED << pushes, pendingPush >>

\* the authentication context changes to {user: u, loading: l}
AuthChanges(u, l) ==
    /\ << u, l >> # << user, loading >>
    /\ user' = u
    /\ loading' = l
    /\ IF Mounted
       THEN Commit(u, l, pathname)
       ELSE UNCHANGED << rendered, pushes, pendingPush >>
    /\ UNCHANGED << pathname, routeFrame >>

\* the navigation router.push("/login") started completes
NavigationCompletes ==
    /\ pendingPush
    /\ pathname' = LoginPage
    /\ rendered' = "unmounted"
    /\ pendingPush' = FALSE
    /\ UNCHANGED << user, loading, pushes, routeFrame >>

\* the user opens a protected page: PrivateRoute mounts there
Visit(page) ==
    /\ ~pendingPush
    /\ page # pathname
    /\ pathname' = page
    /\ Commit(user, loading, page)
    /\ UNCHANGED << user, loading, routeFrame >>

NextRoute ==
    \/ \E u \in Users \cup {Null}, l \in BOOLEAN : AuthChanges(u, l)
    \/ NavigationCompletes
    \/ \E page \in ProtectedPages : Visit(page)

SpecRoute == Init /\ [][NextRoute]_vars

(* ------------------------------ claims --------------------------------- *)

\* the message of err contains "overloaded" or "Service Unavailable"
MentionsOverload(err) ==
    /\ err.hasMessage
    /\ \E w \in {Overloaded, ServiceUnavailable} :
          \E i \in 1..Len(err.message) :
             /\ i + Len(w) - 1 <= Len(err.message)
             /\ \A k \in 1..Len(w) : err.message[i + k - 1] = w[k]

\* the primary provider itself failed: it raised, or it produced no text
PrimaryFailed == primaryOutcome \in {"raised", "empty"}

\* the Answer carries no visual aid: no key, or a key holding undefined
NoVisualAid(r) == r.visualAids \in {Absent, Undefined}

\* C1: every orchestration call ends by returning an Answer-shaped value
\* {answer, visualAids?}, whatever the providers do; it never ends by raising
\* a failure to its caller.
C1_NeverRejects ==
    pc \in Done => (pc = "returned" /\ result.answer \notin {Absent, Undefined})

\* C2: when the primary provider fails with a message containing neither
\* "overloaded" nor "Service Unavailable" (the 'no text produced' failure
\* included), the secondary provider is not invoked in that call and the call
\* returns the fixed generic message with no visual aid.
C2_FatalReturnsGeneric ==
    (PrimaryFailed /\ ~MentionsOverload(e) /\ pc \in Done)
        => /\ secondaryCalls = 0
           /\ pc = "returned"
           /\ result = [answer |-> GenericErrorMsg, visualAids |-> Absent]

\* C3: when the primary provider raises a failure whose message contains
\* "overloaded" or "Service Unavailable", the secondary provider is invoked
\* exactly once in that call, with the original question as the user message.
C3_RetriableInvokesSecondaryOnce ==
    (primaryOutcome = "raised" /\ MentionsOverload(e))
        => (secondaryCalls = 1 /\ secondaryUserMsg = question)

\* C4: when the primary provider fails with a retriable failure and the
\* secondary provider then fails (transport failure, non-2xx status, a body
\* that is not JSON, or no choices[0].message.content), the call returns the
\* fixed "both services unavailable" message with no visual aid.
C4_BothFailMessage ==
    ( /\ primaryOutcome = "raised"
      /\ MentionsOverload(e)
      /\ secondaryOutcome \in {"transport", "http", "badjson", "nocontent"} )
        => /\ pc = "returned"
           /\ result = [answer |-> BothUnavailableMsg, visualAids |-> Absent]

C4_Witness ==
    /\ pc = "returned"
    /\ primaryOutcome = "raised"
    /\ MentionsOverload(e)
    /\ secondaryOutcome = "http"

\* C5: when the primary provider fails with a retriable failure and the
\* secondary provider answers with non-empty content, the call returns exactly
\* that content, the Answer has no visualAids key, and the flow has invoked
\* neither the decider nor the generator.
C5_FallbackSuccess ==
    ( /\ primaryOutcome = "raised"
      /\ MentionsOverload(e)
      /\ secondaryOutcome = "content" )
        => /\ pc = "returned"
           /\ result.answer = secondaryContent
           /\ result.visualAids = Absent
           /\ deciderCalls = 0
           /\ generatorCalls = 0

C5_Witness ==
    /\ pc = "returned"
    /\ primaryOutcome = "raised"
    /\ e = Err(<<"5", "0", "3", " ", "S", "e", "r", "v", "i", "c", "e", " ",
                 "U", "n", "a", "v", "a", "i", "l", "a", "b", "l", "e">>)
    /\ secondaryContent = "Fallback answer"
    /\ result.answer = "Fallback answer"

\* C6: every Answer a call returns, for a non-empty question and any
\* provider outcomes, has a non-empty answer text.
C6_AnswerTextNonEmpty ==
    pc = "returned" => (question /= "" /\ result.answer \notin {"", Undefined, Absent})

C6_Witness ==
    /\ pc = "returned"
    /\ primaryOutcome = "text"
    /\ deciderOutcome = "raised"
    /\ secondaryOutcome = "content"

\* C7: a returned Answer carries a visual aid only if, in the same call, the
\* decider (or a decider invocation elected by the primary model) said true
\* and the generator returned something other than "No visual aid generated.".
C7_VisualAidOnlyWhenAffirmed ==
    (pc = "returned" /\ ~NoVisualAid(result))
        => /\ (deciderOutcome = "true" \/ toolCalls["shouldGenerateVisualAids"] > 0)
           /\ generatorOutcome = "media"
           /\ result.visualAids /= NoVisualAidGenerated

\* C8: when the primary provider succeeds with text and the decider returns
\* false, the call returns an Answer without a visual aid.
C8_DeciderFalseNoVisualAid ==
    (primaryOutcome = "text" /\ deciderOutcome = "false")
        => (pc = "returned" /\ NoVisualAid(result) /\ generatorCalls = 0)

C8_Witness ==
    /\ pc = "returned"
    /\ primaryOutcome = "text"
    /\ deciderOutcome = "false"
    /\ result.answer = answer

\* C9: when the primary provider succeeds with text T, the decider returns
\* true and the generator returns a visual aid reference R, the call returns
\* exactly {answer: T, visualAids: R}.
C9_ExactAnswerWithAid ==
    (primaryOutcome = "text" /\ deciderOutcome = "true" /\ generatorOutcome = "media")
        => /\ pc = "returned"
           /\ result = [answer |-> answer, visualAids |-> generatorResult]
           /\ answer \in PrimaryTexts
           /\ generatorResult \in MediaUrls

C9_Witness ==
    /\ pc = "returned"
    /\ question = "what is a derivative"
    /\ deciderOutcome = "true"
    /\ result = [answer |-> "A derivative measures...",
                 visualAids |-> "data:image/png;base64,AAAA"]

\* C10: in a call in which the primary provider returned non-empty text, the
\* secondary provider is never invoked, whatever the decider and the
\* generator then do.
C10_NoFallbackAfterPrimaryText ==
    primaryOutcome = "text" => secondaryCalls = 0

\* C11: a caught failure leads to a fallback attempt if and only if its
\* message contains the case-sensitive substring "Service Unavailable" or
\* "overloaded"; every other failure (no text produced, no message, other
\* wording or other case) leads to no fallback.
C11_RetriableIffSubstring ==
    e /= NoError => ((secondaryCalls = 1) <=> MentionsOverload(e))

\* the fixed apology strings
Apologies == {GenericErrorMsg, OverloadedMsg, BothUnavailableMsg}

\* some provider call of this orchestration call failed
ProviderFailed ==
    \/ PrimaryFailed
    \/ deciderOutcome = "raised"
    \/ generatorOutcome = "raised"
    \/ secondaryOutcome \in {"transport", "http", "badjson", "nocontent"}

\* C12 as stated: on every path where a provider failed, the text of the
\* returned Answer is one of the fixed apology strings and is never a
\* generated answer text.
C12_AlwaysApology ==
    (pc = "returned" /\ ProviderFailed)
        => (result.answer \in Apologies /\ result.answer \notin PrimaryTexts \cup SecondaryTexts)

\* C12 as amended: on every path where a provider failed and the call returns
\* an Answer, the text is the secondary provider's content when the fallback
\* succeeded, and otherwise one of the fixed apology strings; it is never the
\* primary provider's text nor text taken from a failure.
C12_ApologyOrFallbackText ==
    (pc = "returned" /\ ProviderFailed)
        => /\ IF secondaryOutcome = "content"
              THEN result.answer = secondaryContent /\ secondaryContent \in SecondaryTexts
              ELSE result.answer \in Apologies
           /\ result.answer \notin PrimaryTexts

C12_Witness ==
    /\ pc = "returned"
    /\ deciderOutcome = "raised"
    /\ secondaryOutcome = "http"
    /\ result.answer = BothUnavailableMsg

\* C13: within one orchestration call the primary provider is called at most
\* once and the secondary provider at most once.
C13_NoRetries == primaryCalls <= 1 /\ secondaryCalls <= 1

C13_Witness ==
    /\ pc = "returned"
    /\ primaryCalls = 1
    /\ secondaryCalls = 1
    /\ secondaryOutcome = "transport"

\* C14: when the image generation returns no media, the generator returns
\* "No visual aid generated." and the call stays off its failure path: no
\* failure is caught, the secondary provider is not invoked, and the returned
\* Answer text is the primary provider's text.
C14_NoMediaIsSoftFail ==
    generatorOutcome = "nomedia"
        => /\ generatorResult = NoVisualAidGenerated
           /\ pc = "returned"
           /\ e = NoError
           /\ secondaryCalls = 0
           /\ answer \in PrimaryTexts
           /\ result.answer = answer

C14_Witness ==
    /\ pc = "returned"
    /\ variant = 2
    /\ deciderOutcome = "true"
    /\ generatorOutcome = "nomedia"

\* C16: when DEEPSEEK_API_KEY is not configured, no request is sent to the
\* DeepSeek endpoint.
C16_NoKeyNoFetch == DEEPSEEK_API_KEY = Undefined => secondaryCalls = 0

C18_ToolsAtMostOnce ==
    /\ deciderCalls + toolCalls["shouldGenerateVisualAids"] <= 1
    /\ generatorCalls + toolCalls["generateVisualAids"] <= 1

\* the decider outputs that are "true" once trimmed and lower-cased
ExactlyTrueOutputs ==
    { [present |-> TRUE, chars |-> <<"t", "r", "u", "e">>],
      [present |-> TRUE, chars |-> <<" ", "T", "r", "u", "e", "\n">>],
      [present |-> TRUE, chars |-> <<"T", "R", "U", "E">>] }

\* C19: the decider returns true exactly when its generation's output,
\* trimmed and lower-cased, is "true"; "false", empty or absent text and text
\* that only contains "true" yield false; it is asked once, with no retry.
C19_DeciderParsesLiteralTrue ==
    deciderOutcome \in {"true", "false"}
        => /\ needsVisualAid <=> (deciderText \in ExactlyTrueOutputs)
           /\ (deciderOutcome = "true") <=> needsVisualAid
           /\ deciderCalls = 1

C19_Witness ==
    /\ deciderText = [present |-> TRUE, chars |-> <<" ", "T", "r", "u", "e", "\n">>]
    /\ needsVisualAid
    /\ pc = "awaitGenerator"

\* C20: whenever the primary provider returned non-empty text T, the call
\* returns an Answer whose text is T, whatever the decider and the generator
\* then do.
C20_PrimaryTextAlwaysReturned ==
    (primaryOutcome = "text" /\ pc \in Done)
        => (pc = "returned" /\ result.answer = answer)

\* C15: with two orchestration calls interleaved in any way, each call is at
\* every moment where it would be had it run alone on the replies its own
\* provider calls received: the same continuation, and in the end the same
\* Answer or the same rejection.
C15_ConcurrentCallsIndependent ==
    \A c \in Callers :
        invocation[c].pc /= "idle" =>
            LET alone == RunAlone(variant, StartState, invocation[c].trace)
            IN  /\ invocation[c].pc = alone.pc
                /\ invocation[c].result = alone.result
                /\ invocation[c].thrown = alone.thrown

C15_Witness ==
    /\ invocation["c1"].pc = "returned"
    /\ invocation["c2"].pc = "returned"
    /\ invocation["c1"].question /= invocation["c2"].question
    /\ invocation["c1"].result.answer = "A derivative measures..."
    /\ invocation["c2"].result.answer = "Recursion is..."
    /\ invocation["c1"].result.visualAids = "data:image/png;base64,AAAA"
    /\ invocation["c2"].result.visualAids = Undefined

C22_OneRequestInFlight ==
    /\ [](Cardinality(pending) <= 1)
    /\ [][ (chatEvent' \in {"submitted", "refused"} /\ (isLoading \/ Trim(input) = <<>>))
              => UNCHANGED << messages, input, pending, requests >> ]_vars
    /\ (isLoading ~> ~isLoading)

\* a submit event refused while a request is awaited
C22_Witness == chatEvent = "refused" /\ isLoading /\ Cardinality(pending) = 1

\* C23: in every reachable state of the Whiteboard a non-null diagramUrl
\* implies that paths is empty, also when mouse events interleave with a
\* pending handleGenerate call.
C23_DiagramExcludesStrokes == diagramUrl # Null => paths = <<>>

\* C24: generateWhiteboardDiagram raises when the provider returns no media
\* and otherwise returns the media URL, which handleGenerate shows; a raised
\* failure leaves diagramUrl null; isGenerating eventually returns to false
\* whether the call resolves or rejects; a blank prompt starts no generation.
C24_DiagramFlowHardFails ==
    /\ [](generation.media = NoMedia =>
             generation.status = "raised" /\ generation.thrown = NoDiagramMsg)
    /\ [](generation.status = "resolved" =>
             generation.media \in MediaUrls /\ generation.thrown = Absent)
    /\ [][ (generation.status = "pending" /\ generation'.status = "resolved")
              => diagramUrl' = generation'.media ]_vars
    /\ [][ (generation.status = "pending" /\ generation'.status = "raised")
              => diagramUrl' = Null ]_vars
    /\ (isGenerating ~> ~isGenerating)
    /\ [](generation.status # "none" => Trim(generation.prompt) # <<>>)

\* a generation that failed because the provider returned no media
C24_Witness ==
    /\ generation.status = "raised"
    /\ generation.media = NoMedia
    /\ diagramUrl = Null
    /\ ~isGenerating

\* C25: PrivateRoute renders its children only when a user is authenticated
\* and loading has finished; while loading it renders only the spinner; when
\* loading is false and there is no user it renders nothing and a redirect to
\* "/login" is issued; no redirect is issued while loading is true or a user
\* is present.
C25_PrivateRouteGuards ==
    /\ [](rendered \in {"ChatInterface", "Whiteboard"} => user # Null /\ ~loading)
    /\ [](Mounted /\ loading => rendered = "spinner")
    /\ [](Mounted /\ ~loading /\ user = Null => rendered = "nothing" /\ pendingPush)
    /\ [][ pushes' # pushes => ~loading' /\ user' = Null ]_vars

\* the children are rendered for a signed-in user after an earlier redirect
C25_Witness == rendered = "Whiteboard" /\ user # Null /\ ~loading /\ pushes = 1

====
